---- MODULE Spec2Model ----
(***************************************************************************)
(* Model of the QMC5883L magnetometer driver (src/src/lib.rs and           *)
(* src/src/registers.rs): the Settings bit codec, the register access      *)
(* primitives over the I2C transport, and the public operations of         *)
(* QMC8553L.  Every public operation is one action; the bus transactions   *)
(* it issues are recorded in `bus`.                                        *)
(***************************************************************************)
EXTENDS Integers, Sequences, FiniteSets, TLC

VARIABLES
    endian,     \* byte order of the compilation target ("little" or "big")
    alive,      \* a QMC8553L value exists (new returned Ok)
    standby,    \* QMC8553L::standby
    dev,        \* the device's writable registers: Settings 0x09, Control2 0x0A
    lastSet,    \* <<s>> while register 0x09 holds what change_settings(s) wrote, else <<>>
    op,         \* the last call: [name, arg]
    bus,        \* the transport transactions issued by the last call, in order
    ret         \* what the last call returned: [tag, val]

vars == <<endian, alive, standby, dev, lastSet, op, bus, ret>>

----------------------------------------------------------------------------
(* u8 arithmetic *)

RECURSIVE BitAnd(_, _)
BitAnd(a, b) ==
    IF a = 0 \/ b = 0 THEN 0
    ELSE (IF a % 2 = 1 /\ b % 2 = 1 THEN 1 ELSE 0) + 2 * BitAnd(a \div 2, b \div 2)

RECURSIVE BitOr(_, _)
BitOr(a, b) ==
    IF a = 0 THEN b
    ELSE IF b = 0 THEN a
    ELSE (IF a % 2 = 1 \/ b % 2 = 1 THEN 1 ELSE 0) + 2 * BitOr(a \div 2, b \div 2)

Shl(x, n) == (x * (2 ^ n)) % 256
Shr(x, n) == x \div (2 ^ n)

----------------------------------------------------------------------------
(* settings: the enums and their discriminants *)

OutputDataRate == [OSR10 |-> 0, OSR50 |-> 1, OSR100 |-> 2, OSR200 |-> 3]
OverSampleRatio == [OSR512 |-> 0, OSR256 |-> 1, OSR128 |-> 2, OSR64 |-> 3]
FullScale == [RNG2G |-> 0, RNG8G |-> 1]

Settings == [odr : DOMAIN OutputDataRate, osr : DOMAIN OverSampleRatio, rng : DOMAIN FullScale]

\* enumn's n(): the variant whose discriminant is x, <<>> (None) when there is none
n(enum, x) ==
    IF \E v \in DOMAIN enum : enum[v] = x
    THEN <<CHOOSE v \in DOMAIN enum : enum[v] = x>>
    ELSE <<>>

Settings_ADDR == 9

\* the encoder with the field positions of the decoder (odr in bits 7:6, osr in bits 3:2)
u8_from_Settings_decoder_layout(set) ==
    Shl(OutputDataRate[set.odr], 6) + Shl(FullScale[set.rng], 4)
        + Shl(OverSampleRatio[set.osr], 2) + 1

\* impl From<Settings> for u8
u8_from_Settings(set) ==
    LET v0 == 0
        v1 == v0 + Shl(OutputDataRate[set.odr], 2)
        v2 == v1 + Shl(FullScale[set.rng], 4)
        v3 == v2 + Shl(OverSampleRatio[set.osr], 6)
        v4 == v3 + 1
    IN  v4

\* impl From<u8> for Settings; "panic" when an unwrap() meets None
Settings_from_u8(val) ==
    LET odr == n(OutputDataRate, Shr(BitAnd(val, 192), 6))
        rng == n(FullScale, Shr(BitAnd(val, 48), 4))
        osr == n(OverSampleRatio, Shr(BitAnd(val, 12), 2))
    IN  IF odr = <<>> \/ rng = <<>> \/ osr = <<>>
        THEN [tag |-> "panic", val |-> <<>>]
        ELSE [tag |-> "ok", val |-> <<[odr |-> odr[1], osr |-> osr[1], rng |-> rng[1]]>>]

----------------------------------------------------------------------------
(* registers *)

Register16 == [X |-> 0, Y |-> 2, Z |-> 4, TOUT |-> 7]
FlagRegister == [Status |-> 6, Control2 |-> 10]
Status == [DOR |-> 4, OVL |-> 2, DRDY |-> 1]
Control2 == [SOFT_RST |-> 128, ROL_PNT |-> 64, INT_ENB |-> 1]

Axis == {"X", "Y", "Z"}

\* impl From<Axis> for registers::Register16
Register16_from_Axis(value) ==
    CASE value = "X" -> "X"
      [] value = "Y" -> "Y"
      [] value = "Z" -> "Z"

\* two's complement reading of a 16 bit pattern
AsI16(w) == IF w >= 32768 THEN w - 65536 ELSE w

\* bytemuck::cast::<[u8; 2], i16>: the array's bytes reinterpreted in the
\* byte order of the target
cast_u8x2_i16(a, e) ==
    IF e = "little" THEN AsI16(a[1] + 256 * a[2]) ELSE AsI16(256 * a[1] + a[2])

i16_from_le(val, e) == cast_u8x2_i16(<<val[2], val[1]>>, e)

----------------------------------------------------------------------------
(* the transport (embedded_hal::i2c::I2c) and the device behind it *)

MaxErrorCode == 2
\* I::Error values: opaque to the driver
Errors == 1..MaxErrorCode

\* what the device answers for its 16 bit data registers, as [lsb, msb] pairs
Words == {<<52, 18>>, <<0, 0>>, <<255, 127>>, <<0, 128>>}
\* what the device answers for the Status register
StatusBytes == {0, 1, 4, 6, 254, 255}
\* bytes something other than this driver may leave in the Settings register
ForeignBytes == {0, 93, 95, 45, 61, 237, 193}

Ok(v) == [tag |-> "Ok", val |-> <<v>>]
Err(e) == [tag |-> "Err", val |-> <<e>>]
Panic == [tag |-> "Panic", val |-> <<>>]

\* one transport call: I2c::write(out) or I2c::write_read(out, in)
Tx(kind, out, in, res) == [kind |-> kind, out |-> out, in |-> in, res |-> res]

\* the device stores the byte written to a register; a Control2 write with
\* SOFT_RST is a self-clearing pulse that also clears ROL_PNT
DevWrite(d, regaddr, val) ==
    CASE regaddr = Settings_ADDR -> [d EXCEPT !.settings = val]
      [] regaddr = FlagRegister.Control2 ->
            [d EXCEPT !.control2 = IF BitAnd(val, Control2.SOFT_RST) # 0 THEN 0 ELSE val]
      [] OTHER -> d

\* the byte the device answers for a single-register read; inp is what its
\* volatile registers hold at that moment
DevRead(d, regaddr, inp) ==
    CASE regaddr = Settings_ADDR -> d.settings
      [] regaddr = FlagRegister.Control2 -> d.control2
      [] OTHER -> inp

(* A call runs on a record st = [dev, bus, standby]; f is the index of the   *)
(* transport call that fails within this call (0: none), e the error.        *)

\* i2c() that hands out the transport and leaves the standby flag alone
i2c_keeping_standby(st) == st

\* impl Registers for QMC8553L: i2c()
i2c(st) == [st EXCEPT !.standby = FALSE]

Fails(st, f) == Len(st.bus) + 1 = f

\* the faults a call of at most k transport calls can meet: <<f, e>>
Faults(k) == {<<0, 0>>} \cup ((1..k) \X Errors)

\* Registers::read_raw
read_raw(st, regaddr, inp, f, e) ==
    LET s1 == i2c(st)
        val == DevRead(s1.dev, regaddr, inp)
    IN  IF Fails(st, f)
        THEN [st |-> [s1 EXCEPT !.bus = Append(@, Tx("write_read", <<regaddr>>, <<>>, Err(e)))],
              r |-> Err(e)]
        ELSE [st |-> [s1 EXCEPT !.bus = Append(@, Tx("write_read", <<regaddr>>, <<val>>, Ok(0)))],
              r |-> Ok(val)]

\* Registers::write_raw
write_raw(st, regaddr, val, f, e) ==
    LET s1 == i2c(st)
        to_write == <<regaddr, val>>
    IN  IF Fails(st, f)
        THEN [st |-> [s1 EXCEPT !.bus = Append(@, Tx("write", to_write, <<>>, Err(e)))],
              r |-> Err(e)]
        ELSE [st |-> [s1 EXCEPT !.bus = Append(@, Tx("write", to_write, <<>>, Ok(0))),
                                !.dev = DevWrite(@, regaddr, val)],
              r |-> Ok(0)]

\* Registers::read_flags
read_flags(st, reg, inp, f, e) == read_raw(st, FlagRegister[reg], inp, f, e)

\* Registers::write_flags
write_flags(st, reg, val, f, e) == write_raw(st, FlagRegister[reg], val, f, e)

\* flag_getter! { get_status -> Status }: from_bits_truncate keeps the defined bits
get_status(st, inp, f, e) ==
    LET a == read_flags(st, "Status", inp, f, e)
    IN  IF a.r.tag = "Err" THEN a
        ELSE [st |-> a.st,
              r |-> Ok(BitAnd(a.r.val[1], BitOr(Status.DOR, BitOr(Status.OVL, Status.DRDY))))]

\* flag_setter! { set_control2 -> Control2 }
set_control2(st, val, f, e) == write_flags(st, "Control2", val, f, e)

\* read_reg16s as two single-byte reads, without the pointer rollover
read_reg16s_bytewise(st, reg, ans, en, f, e) ==
    LET a == read_raw(st, Register16[reg], ans[1], f, e)
    IN  IF a.r.tag = "Err" THEN a
        ELSE LET b == read_raw(a.st, Register16[reg] + 1, ans[2], f, e)
             IN  IF b.r.tag = "Err" THEN b
                 ELSE [st |-> b.st, r |-> Ok(i16_from_le(<<a.r.val[1], b.r.val[1]>>, en))]

\* Registers::read_reg16s; ans is what the device delivers from lsb_addr on, of
\* which the transport call takes as many bytes as buf holds
read_reg16s(st, reg, ans, en, f, e) ==
    LET s1 == i2c(st)
        lsb_addr == Register16[reg]
        buf == SubSeq(ans, 1, 2)
    IN  IF Fails(st, f)
        THEN [st |-> [s1 EXCEPT !.bus = Append(@, Tx("write_read", <<lsb_addr>>, <<>>, Err(e)))],
              r |-> Err(e)]
        ELSE [st |-> [s1 EXCEPT !.bus = Append(@, Tx("write_read", <<lsb_addr>>, buf, Ok(0)))],
              r |-> Ok(i16_from_le(buf, en))]

\* Registers::read_data; ans as in read_reg16s
read_data(st, ans, en, f, e) ==
    LET s1 == i2c(st)
        addr == Register16.X
        buf == SubSeq(ans, 1, 6)
    IN  IF Fails(st, f)
        THEN [st |-> [s1 EXCEPT !.bus = Append(@, Tx("write_read", <<addr>>, <<>>, Err(e)))],
              r |-> Err(e)]
        ELSE [st |-> [s1 EXCEPT !.bus = Append(@, Tx("write_read", <<addr>>, buf, Ok(0)))],
              r |-> Ok(<<i16_from_le(SubSeq(buf, 1, 2), en),
                         i16_from_le(SubSeq(buf, 3, 4), en),
                         i16_from_le(SubSeq(buf, 5, 6), en)>>)]

----------------------------------------------------------------------------
(* QMC8553L: the public operations, as functions of the driver record *)

\* QMC8553L::settings
settings(st, f, e) ==
    LET a == read_raw(st, Settings_ADDR, 0, f, e)
    IN  IF a.r.tag = "Err" THEN a
        ELSE LET d == Settings_from_u8(a.r.val[1])
             IN  IF d.tag = "panic" THEN [st |-> a.st, r |-> Panic]
                 ELSE [st |-> a.st, r |-> Ok(d.val[1])]

\* change_settings that writes the byte to Control2
change_settings_at_control2(st, set, f, e) ==
    write_raw(st, FlagRegister.Control2, u8_from_Settings(set), f, e)

\* QMC8553L::change_settings
change_settings(st, set, f, e) == write_raw(st, Settings_ADDR, u8_from_Settings(set), f, e)

\* reset that pulses SOFT_RST and does not re-enable the pointer rollover
reset_soft_rst_only(st, f, e) == set_control2(st, Control2.SOFT_RST, f, e)

\* reset with the two Control2 writes in the other order
reset_rol_pnt_first(st, f, e) ==
    LET a == set_control2(st, Control2.ROL_PNT, f, e)
    IN  IF a.r.tag = "Err" THEN a
        ELSE set_control2(a.st, Control2.SOFT_RST, f, e)

\* QMC8553L::reset
reset(st, f, e) ==
    LET a == set_control2(st, Control2.SOFT_RST, f, e)
    IN  IF a.r.tag = "Err" THEN a
        ELSE set_control2(a.st, Control2.ROL_PNT, f, e)

\* new that applies the settings without a reset
new_without_reset(d, set, f, e) ==
    change_settings([dev |-> d, bus |-> <<>>, standby |-> FALSE], set, f, e)

\* new that applies the settings before the reset
new_settings_first(d, set, f, e) ==
    LET to_ret == [dev |-> d, bus |-> <<>>, standby |-> FALSE]
        a == change_settings(to_ret, set, f, e)
    IN  IF a.r.tag = "Err" THEN a
        ELSE reset(a.st, f, e)

\* QMC8553L::new
new(d, set, f, e) ==
    LET to_ret == [dev |-> d, bus |-> <<>>, standby |-> FALSE]
        a == reset(to_ret, f, e)
    IN  IF a.r.tag = "Err" THEN a
        ELSE change_settings(a.st, set, f, e)

\* to_standby that sets the flag whether or not the write succeeded
to_standby_flag_on_error(st, f, e) ==
    LET a == settings(st, f, e)
    IN  IF a.r.tag # "Ok" THEN a
        ELSE LET set_val == BitAnd(u8_from_Settings(a.r.val[1]), 252)
                 b == write_raw(a.st, Settings_ADDR, set_val, f, e)
             IN  [st |-> [b.st EXCEPT !.standby = TRUE], r |-> b.r]

\* to_standby that goes on to the write when the read of the register failed
to_standby_ignoring_read_error(st, f, e) ==
    LET a == read_raw(st, Settings_ADDR, 0, f, e)
        b == write_raw(a.st, Settings_ADDR, 0, f, e)
    IN  IF b.r.tag = "Err" THEN b
        ELSE [st |-> [b.st EXCEPT !.standby = TRUE], r |-> Ok(0)]

\* QMC8553L::to_standby
to_standby(st, f, e) ==
    LET a == settings(st, f, e)
    IN  IF a.r.tag # "Ok" THEN a
        ELSE LET set_val == BitAnd(u8_from_Settings(a.r.val[1]), 252)
                 b == write_raw(a.st, Settings_ADDR, set_val, f, e)
             IN  IF b.r.tag = "Err" THEN b
                 ELSE [st |-> [b.st EXCEPT !.standby = TRUE], r |-> Ok(0)]

\* QMC8553L::on_standby
on_standby(st) == st.standby

\* is_ready that reports ready when any status flag is set
is_ready_any_flag(st, inp, f, e) ==
    LET a == get_status(st, inp, f, e)
    IN  IF a.r.tag = "Err" THEN a
        ELSE [st |-> a.st, r |-> Ok(a.r.val[1] # 0)]

\* QMC8553L::is_ready
is_ready(st, inp, f, e) ==
    LET a == get_status(st, inp, f, e)
    IN  IF a.r.tag = "Err" THEN a
        ELSE [st |-> a.st, r |-> Ok(BitAnd(a.r.val[1], Status.DRDY) = Status.DRDY)]

\* QMC8553L::read_all
read_all(st, buf, en, f, e) == read_data(st, buf, en, f, e)

\* QMC8553L::read
read(st, axis, buf, en, f, e) == read_reg16s(st, Register16_from_Axis(axis), buf, en, f, e)

\* QMC8553L::get_temp
get_temp(st, buf, en, f, e) == read_reg16s(st, "TOUT", buf, en, f, e)

\* settings::tests::sanity, for any Settings: the byte and what it converts back to
sanity(set) ==
    LET intermediate_val == u8_from_Settings(set)
        back == Settings_from_u8(intermediate_val)
    IN  IF back.tag = "panic" THEN Panic
        ELSE Ok([intermediate_val |-> intermediate_val, back |-> back.val[1]])

----------------------------------------------------------------------------
(* the state machine: one action per call *)

Self == [dev |-> dev, bus |-> <<>>, standby |-> standby]

\* the device goes on delivering bytes for as long as the controller reads
Stream(bytes) == bytes \o <<0, 0>>

\* the caller is between two calls; a panic ends the program
Running == op.name = "none"

Init ==
    /\ endian \in {"little", "big"}
    /\ alive = FALSE
    /\ standby = FALSE
    /\ dev \in [settings : ForeignBytes, control2 : {0}]
    /\ lastSet = <<>>
    /\ op = [name |-> "none", arg |-> <<>>]
    /\ bus = <<>>
    /\ ret = Ok(0)

Returned(name, arg, out) ==
    /\ op' = [name |-> name, arg |-> arg]
    /\ bus' = out.st.bus
    /\ dev' = out.st.dev
    /\ standby' = out.st.standby
    /\ ret' = out.r
    /\ UNCHANGED endian

CallNew ==
    \E set \in Settings, flt \in Faults(3) :
        LET out == new(dev, set, flt[1], flt[2])
        IN  /\ Running
            /\ Returned("new", <<set>>, [out EXCEPT !.st.standby = (out.r.tag = "Ok") /\ @])
            /\ alive' = (out.r.tag = "Ok")
            /\ lastSet' = IF out.r.tag = "Ok" THEN <<set>> ELSE lastSet

CallReset ==
    \E flt \in Faults(2) :
        /\ Running /\ alive
        /\ Returned("reset", <<>>, reset(Self, flt[1], flt[2]))
        /\ UNCHANGED <<alive, lastSet>>

CallToStandby ==
    \E flt \in Faults(2) :
        LET out == to_standby(Self, flt[1], flt[2])
        IN  /\ Running /\ alive
            /\ Returned("to_standby", <<>>, out)
            /\ lastSet' = IF out.r.tag = "Ok" THEN <<>> ELSE lastSet
            /\ UNCHANGED alive

\* on_standby that reaches the flag through i2c(), as the register accesses do
CallOnStandby_through_i2c ==
    /\ Running /\ alive
    /\ Returned("on_standby", <<>>, [st |-> i2c(Self), r |-> Ok(on_standby(Self))])
    /\ UNCHANGED <<alive, lastSet>>

CallOnStandby ==
    /\ Running /\ alive
    /\ Returned("on_standby", <<>>, [st |-> Self, r |-> Ok(on_standby(Self))])
    /\ UNCHANGED <<alive, lastSet>>

CallIsReady ==
    \E inp \in StatusBytes, flt \in Faults(1) :
        /\ Running /\ alive
        /\ Returned("is_ready", <<>>, is_ready(Self, inp, flt[1], flt[2]))
        /\ UNCHANGED <<alive, lastSet>>

CallReadAll ==
    \E x \in Words, y \in Words, z \in Words, flt \in Faults(1) :
        /\ Running /\ alive
        /\ Returned("read_all", <<>>, read_all(Self, Stream(x \o y \o z), endian, flt[1], flt[2]))
        /\ UNCHANGED <<alive, lastSet>>

CallRead ==
    \E axis \in Axis, w \in Words, flt \in Faults(1) :
        /\ Running /\ alive
        /\ Returned("read", <<axis>>, read(Self, axis, Stream(w), endian, flt[1], flt[2]))
        /\ UNCHANGED <<alive, lastSet>>

CallGetTemp ==
    \E w \in Words, flt \in Faults(1) :
        /\ Running /\ alive
        /\ Returned("get_temp", <<>>, get_temp(Self, Stream(w), endian, flt[1], flt[2]))
        /\ UNCHANGED <<alive, lastSet>>

CallSettings ==
    \E flt \in Faults(1) :
        /\ Running /\ alive
        /\ Returned("settings", <<>>, settings(Self, flt[1], flt[2]))
        /\ UNCHANGED <<alive, lastSet>>

CallChangeSettings ==
    \E set \in Settings, flt \in Faults(1) :
        LET out == change_settings(Self, set, flt[1], flt[2])
        IN  /\ Running /\ alive
            /\ Returned("change_settings", <<set>>, out)
            /\ lastSet' = IF out.r.tag = "Ok" THEN <<set>> ELSE lastSet
            /\ UNCHANGED alive

CallSanity ==
    \E set \in Settings :
        /\ Running
        /\ Returned("sanity", <<set>>, [st |-> Self, r |-> sanity(set)])
        /\ UNCHANGED <<alive, lastSet>>

\* the caller has looked at what the call returned and goes on
Resume ==
    /\ op.name # "none"
    /\ ret.tag # "Panic"
    /\ op' = [name |-> "none", arg |-> <<>>]
    /\ bus' = <<>>
    /\ ret' = Ok(0)
    /\ UNCHANGED <<endian, alive, standby, dev, lastSet>>

\* something other than this driver changes the Settings register
Disturb ==
    \E b \in ForeignBytes :
        /\ Running
        /\ dev' = [dev EXCEPT !.settings = b]
        /\ lastSet' = <<>>
        /\ UNCHANGED <<endian, alive, standby, op, bus, ret>>

Next ==
    \/ CallNew
    \/ CallReset
    \/ CallToStandby
    \/ CallOnStandby
    \/ CallIsReady
    \/ CallReadAll
    \/ CallRead
    \/ CallGetTemp
    \/ CallSettings
    \/ CallChangeSettings
    \/ CallSanity
    \/ Resume
    \/ Disturb

Spec == Init /\ [][Next]_vars

----------------------------------------------------------------------------
(* properties *)

IsCall(name) == op.name = name
Succeeded == ret.tag = "Ok"

\* the Settings value holding the three 2 bit codes of a byte, as the register layout
\* names them: bits 7:6 oversample ratio, bits 5:4 full scale, bits 3:2 output data rate
LayoutOf(b, set) ==
    /\ (b \div 64) % 4 = OverSampleRatio[set.osr]
    /\ (b \div 16) % 4 = FullScale[set.rng]
    /\ (b \div 4) % 4 = OutputDataRate[set.odr]

\* C1: converting any Settings to its byte and the byte back gives the same Settings.
C1_RoundTrip ==
    (IsCall("sanity") /\ Succeeded) => ret.val[1].back = op.arg[1]

\* C2: settings() after a successful change_settings(s), with register 0x09 untouched
\* since, succeeds and returns s.
C2_SettingsReadBack ==
    (IsCall("settings") /\ lastSet # <<>> /\ bus[1].res.tag = "Ok") => ret = Ok(lastSet[1])

\* C3: the encoded byte carries the oversample ratio in bits 7:6, the full scale in
\* bits 5:4, the output data rate in bits 3:2, 0 in bit 1 and 1 in bit 0, and is the
\* bitwise OR of the shifted codes and 0x01; change_settings writes that byte.
C3_BitLayout ==
    /\ (IsCall("sanity") /\ Succeeded) =>
            LET b == ret.val[1].intermediate_val
                set == op.arg[1]
            IN  /\ LayoutOf(b, set)
                /\ (b \div 2) % 2 = 0
                /\ b % 2 = 1
                /\ b = BitOr(BitOr(Shl(OverSampleRatio[set.osr], 6), Shl(FullScale[set.rng], 4)),
                             BitOr(Shl(OutputDataRate[set.odr], 2), 1))
    /\ (IsCall("change_settings") /\ Succeeded) =>
            /\ LayoutOf(bus[1].out[2], op.arg[1])
            /\ bus[1].out[2] % 4 = 1

C3_Witness ==
    /\ IsCall("sanity")
    /\ op.arg[1] = [odr |-> "OSR50", osr |-> "OSR256", rng |-> "RNG8G"]
    /\ ret = Ok([intermediate_val |-> 85, back |-> op.arg[1]])

\* C4: a successful to_standby writes to register 0x09 the byte it read with bit 0
\* cleared and bits 7..2 as they were.
C4_StandbyMasking ==
    (IsCall("to_standby") /\ Succeeded) =>
        LET b == bus[1].in[1]
            w == bus[2].out
        IN  /\ w[1] = Settings_ADDR
            /\ w[2] % 2 = 0
            /\ w[2] \div 4 = b \div 4

\* C5: read_all returns the three little-endian signed 16 bit values of bytes 0..2,
\* 2..4 and 4..6 of the buffer, in that order.
C5_ReadAllLittleEndian ==
    (IsCall("read_all") /\ Succeeded) =>
        LET buf == bus[1].in
        IN  ret.val[1] = <<AsI16(buf[1] + 256 * buf[2]),
                           AsI16(buf[3] + 256 * buf[4]),
                           AsI16(buf[5] + 256 * buf[6])>>

\* C6: when the byte read from register 0x09 has full-scale bits 0b10 or 0b11,
\* settings() and to_standby return an InvalidEncoding error value: no Settings, no
\* transport error, no abort.
C6_InvalidEncodingReturned ==
    ((IsCall("settings") \/ IsCall("to_standby"))
        /\ bus[1].res.tag = "Ok" /\ (bus[1].in[1] \div 16) % 4 \in {2, 3})
    => ret.tag = "InvalidEncoding"

\* C7: a successful reset issues exactly two transport calls, the writes [0x0A, 0x80]
\* then [0x0A, 0x40]; no reset issues the ROL_PNT write before the SOFT_RST write.
C7_ResetSequence ==
    IsCall("reset") =>
        /\ Succeeded => bus = <<Tx("write", <<10, 128>>, <<>>, Ok(0)),
                                Tx("write", <<10, 64>>, <<>>, Ok(0))>>
        /\ \A i \in 1..Len(bus) :
                bus[i].out = <<10, 64>> =>
                    \E j \in 1..(i - 1) : bus[j].out = <<10, 128>> /\ bus[j].res.tag = "Ok"

C7_Witness ==
    IsCall("reset") /\ Succeeded /\ Len(bus) = 2 /\ dev.control2 = 64

\* C8 as stated: a successful new issues the writes 0x0A<-0x80, 0x0A<-0x40,
\* 0x09<-encoded settings and then 0x0A<-0x40 again.
C8_FourWrites ==
    (IsCall("new") /\ Succeeded) =>
        /\ Len(bus) = 4
        /\ bus[1].out = <<10, 128>>
        /\ bus[2].out = <<10, 64>>
        /\ bus[3].out = <<9, u8_from_Settings(op.arg[1])>>
        /\ bus[4].out = <<10, 64>>

\* C8 amended: a successful new issues exactly three transport calls, the writes
\* 0x0A<-0x80, 0x0A<-0x40 and 0x09<-encoded settings, in this order.
C8_NewWrites ==
    (IsCall("new") /\ Succeeded) =>
        bus = <<Tx("write", <<10, 128>>, <<>>, Ok(0)),
                Tx("write", <<10, 64>>, <<>>, Ok(0)),
                Tx("write", <<9, u8_from_Settings(op.arg[1])>>, <<>>, Ok(0))>>

C8_Witness ==
    /\ IsCall("new") /\ Succeeded
    /\ op.arg[1] = [odr |-> "OSR100", osr |-> "OSR128", rng |-> "RNG2G"]
    /\ Len(bus) = 3
    /\ bus[3].out = <<9, 137>>

\* C9: in every new, a write to register 0x09 comes after both Control2 writes of the
\* reset have succeeded, and the driver a successful new returns is not on standby.
C9_ResetBeforeSettings ==
    IsCall("new") =>
        /\ \A i \in 1..Len(bus) :
                bus[i].out[1] = Settings_ADDR =>
                    /\ i = 3
                    /\ bus[1] = Tx("write", <<10, 128>>, <<>>, Ok(0))
                    /\ bus[2] = Tx("write", <<10, 64>>, <<>>, Ok(0))
        /\ Succeeded => (alive /\ on_standby(Self) = FALSE /\ Len(bus) = 3)

C9_Witness ==
    /\ IsCall("new") /\ Succeeded /\ alive /\ ~standby
    /\ bus[3].out[1] = Settings_ADDR
    /\ dev.control2 = 64

\* C10: in every call, a transport call that returned an error is the last one the
\* call issued and its error is what the call returned; a call returns an error
\* only so.
C10_ErrorPropagation ==
    /\ \A i \in 1..Len(bus) :
            bus[i].res.tag = "Err" => (i = Len(bus) /\ ret = bus[i].res)
    /\ ret.tag = "Err" => (Len(bus) > 0 /\ bus[Len(bus)].res = ret)
    /\ (IsCall("reset") /\ bus[1].res.tag = "Err") => Len(bus) = 1
    /\ (IsCall("new") /\ \E i \in 1..Len(bus) : i <= 2 /\ bus[i].res.tag = "Err") =>
            \A j \in 1..Len(bus) : bus[j].out[1] # Settings_ADDR
    /\ (IsCall("to_standby") /\ bus[1].res.tag = "Err") => Len(bus) = 1

C10_Witness ==
    /\ IsCall("to_standby")
    /\ Len(bus) = 1
    /\ bus[1] = Tx("write_read", <<9>>, <<>>, Err(2))
    /\ ret = Err(2)

\* C11: every is_ready issues exactly one transport call, a read of the Status
\* register 0x06; it returns Ok(TRUE) when bit 0 of the byte read is set, Ok(FALSE)
\* when it is clear, whatever the other bits, and an error only when the read failed.
C11_IsReady ==
    IsCall("is_ready") =>
        /\ Len(bus) = 1
        /\ bus[1].kind = "write_read"
        /\ bus[1].out = <<FlagRegister.Status>>
        /\ bus[1].res.tag = "Ok" => (Len(bus[1].in) = 1 /\ ret = Ok(bus[1].in[1] % 2 = 1))
        /\ bus[1].res.tag = "Err" => ret = bus[1].res
        /\ ret.tag \in {"Ok", "Err"}

C11_Witness ==
    /\ IsCall("is_ready")
    /\ bus = <<Tx("write_read", <<6>>, <<254>>, Ok(0))>>
    /\ ret = Ok(FALSE)

\* the calls the claims name as reaching register access
WakingCalls == {"reset", "is_ready", "read", "read_all", "get_temp", "settings", "change_settings"}

\* C12: after a successful to_standby the flag is TRUE and on_standby returns TRUE;
\* the flag stays TRUE over every step that issues no transport call; after the
\* next reset, is_ready, read, read_all, get_temp, settings or change_settings,
\* successful or not, it is FALSE.
C12_StandbyFlag ==
    [][ /\ (op'.name = "to_standby" /\ ret'.tag = "Ok") => standby'
        /\ (standby /\ op'.name = "on_standby") => (ret' = Ok(TRUE) /\ standby')
        /\ (standby /\ ~standby') => (op.name = "none" /\ op'.name # "none" /\ Len(bus') >= 1)
        /\ (op.name = "none" /\ op'.name \in WakingCalls) => (~standby' /\ Len(bus') >= 1)
      ]_vars

C12_Witness ==
    /\ IsCall("on_standby")
    /\ ret = Ok(TRUE)
    /\ standby

\* C13: on_standby issues no transport call and changes neither the standby flag
\* nor a device register; it returns the flag, so calling it again returns the same.
C13_OnStandbyPure ==
    [][ /\ (op.name = "none" /\ op'.name = "on_standby") =>
                /\ bus' = <<>>
                /\ ret' = Ok(standby)
                /\ standby' = standby
                /\ dev' = dev
                /\ alive' = alive
        /\ op.name = "on_standby" => (standby' = standby /\ dev' = dev /\ bus' = <<>>)
      ]_vars

C13_Witness ==
    /\ IsCall("on_standby")
    /\ bus = <<>>
    /\ ret = Ok(standby)
    /\ dev.control2 = Control2.ROL_PNT

\* the calls that read more than one byte in one transport call
MultiByteReads == {"read", "read_all", "get_temp"}

\* C14 as stated: whenever a driver returned by new issues a multi-byte read, the
\* device's Control2 register holds 0x40, also after a reset that returned an error.
C14_RolPntAtEveryRead ==
    (alive /\ op.name \in MultiByteReads) => dev.control2 = Control2.ROL_PNT

\* C14 amended: a successful new and a successful reset leave Control2 at 0x40; with
\* a driver alive, Control2 leaves 0x40 only in a reset that returned an error on its
\* second write, after its SOFT_RST write succeeded, and then holds 0x00; a multi-byte
\* read is issued with Control2 as it is and leaves it so.
C14_RolPntUnlessResetFailed ==
    [][ /\ (op'.name \in {"new", "reset"} /\ ret'.tag = "Ok") => dev'.control2 = Control2.ROL_PNT
        /\ (alive /\ alive' /\ dev.control2 = Control2.ROL_PNT /\ dev'.control2 # Control2.ROL_PNT) =>
                /\ op'.name = "reset"
                /\ ret'.tag = "Err"
                /\ Len(bus') = 2
                /\ bus'[1] = Tx("write", <<10, 128>>, <<>>, Ok(0))
                /\ bus'[2].res = ret'
                /\ dev'.control2 = 0
        /\ (op.name = "none" /\ op'.name \in MultiByteReads) => dev'.control2 = dev.control2
      ]_vars

C14_Witness ==
    /\ alive
    /\ IsCall("read_all") /\ Succeeded
    /\ dev.control2 = Control2.ROL_PNT

\* exactly one transport call, a write of [addr] followed by a read of len bytes
OneBurst(addr, len) ==
    /\ Len(bus) = 1
    /\ bus[1].kind = "write_read"
    /\ bus[1].out = <<addr>>
    /\ bus[1].res.tag = "Ok" => Len(bus[1].in) = len

\* C15: read_all is one write of [0x00] and read of 6 bytes; read(axis) one write of
\* [0x00], [0x02] or [0x04] for X, Y, Z and read of 2 bytes; get_temp one write of
\* [0x07] and read of 2 bytes; none issues a second transport call.
C15_OneBurstPerRead ==
    /\ IsCall("read_all") => OneBurst(0, 6)
    /\ IsCall("read") =>
            OneBurst(CASE op.arg[1] = "X" -> 0 [] op.arg[1] = "Y" -> 2 [] op.arg[1] = "Z" -> 4, 2)
    /\ IsCall("get_temp") => OneBurst(7, 2)

C15_Witness ==
    /\ IsCall("read")
    /\ op.arg = <<"Z">>
    /\ bus = <<Tx("write_read", <<4>>, <<255, 127>>, Ok(0))>>

\* C16: a to_standby that returns an error, from its read or from its write of
\* register 0x09, leaves the flag FALSE whatever it was before; the flag is TRUE
\* after a to_standby exactly when its write to 0x09 succeeded.
C16_FlagOnlyAfterWrite ==
    [][ (op.name = "none" /\ op'.name = "to_standby") =>
            /\ ret'.tag = "Err" => ~standby'
            /\ standby' <=> /\ ret'.tag = "Ok"
                            /\ Len(bus') = 2
                            /\ bus'[2].kind = "write"
                            /\ bus'[2].out[1] = Settings_ADDR
                            /\ bus'[2].res.tag = "Ok"
      ]_vars

C16_Witness ==
    /\ IsCall("to_standby")
    /\ Len(bus) = 2
    /\ bus[2].res.tag = "Err"
    /\ ret = bus[2].res
    /\ ~standby

\* the register writes among the transport calls b, and the successful ones to addr
Writes(b) == {i \in 1..Len(b) : b[i].kind = "write"}
OkWrites(b, addr) == {i \in Writes(b) : b[i].out[1] = addr /\ b[i].res.tag = "Ok"}
LastOkWrite(b, addr) == CHOOSE i \in OkWrites(b, addr) : \A j \in OkWrites(b, addr) : j <= i

\* what each call writes: nothing, Control2 only, Settings only
WritesOwnRegisters ==
    /\ op'.name \in {"is_ready", "read", "read_all", "get_temp", "settings"} => Writes(bus') = {}
    /\ op'.name = "reset" => \A i \in Writes(bus') : bus'[i].out[1] = FlagRegister.Control2
    /\ op'.name \in {"change_settings", "to_standby"} =>
            \A i \in Writes(bus') : bus'[i].out[1] = Settings_ADDR

\* the Settings register holds the byte of the last successful write to it
SettingsHoldsLastWrite ==
    dev'.settings = IF OkWrites(bus', Settings_ADDR) = {} THEN dev.settings
                    ELSE bus'[LastOkWrite(bus', Settings_ADDR)].out[2]

\* C17 as stated: is_ready, read, read_all, get_temp and settings issue no register
\* write, reset writes only Control2, change_settings and to_standby only Settings;
\* after every call Settings holds the byte of the last successful write to it and
\* Control2 the byte of the last successful reset write.
C17_RegistersHoldLastWrite ==
    [][ (op.name = "none" /\ op'.name # "none") =>
            /\ WritesOwnRegisters
            /\ SettingsHoldsLastWrite
            /\ dev'.control2 = IF OkWrites(bus', FlagRegister.Control2) = {} THEN dev.control2
                               ELSE bus'[LastOkWrite(bus', FlagRegister.Control2)].out[2]
      ]_vars

\* C17 amended: as stated, except that Control2 holds 0x00 when the last successful
\* reset write was the SOFT_RST pulse, and the byte written otherwise.
C17_RegistersAfterWrites ==
    [][ (op.name = "none" /\ op'.name # "none") =>
            /\ WritesOwnRegisters
            /\ SettingsHoldsLastWrite
            /\ dev'.control2 =
                    IF OkWrites(bus', FlagRegister.Control2) = {} THEN dev.control2
                    ELSE LET val == bus'[LastOkWrite(bus', FlagRegister.Control2)].out[2]
                         IN  IF val = Control2.SOFT_RST THEN 0 ELSE val
      ]_vars

C17_Witness ==
    /\ IsCall("reset")
    /\ ret.tag = "Err"
    /\ OkWrites(bus, FlagRegister.Control2) = {1}
    /\ bus[1].out = <<10, 128>>
    /\ dev.control2 = 0

====
